---- MODULE Spec2Model ----
(***************************************************************************)
(* Model of the event-tracking poller of MoveForge                         *)
(* (src/src/commands/track.js: parseEventType, pollEvents) together with   *)
(* the account transaction log it reads through                            *)
(* RPCClient.getAccountTransactions (src/unnamed/part_007).                *)
(*                                                                         *)
(* JavaScript runs pollEvents as one task: the code between two awaits is  *)
(* atomic.  The actions below are those atomic pieces: starting and        *)
(* issuing the first fetch, the fetch settling (resolve: the whole batch   *)
(* is processed and the timer is armed; reject: the warning is logged and  *)
(* the timer is armed), and the timer firing (the next fetch is issued).   *)
(* The chain appending a transaction is the environment.                   *)
(*                                                                         *)
(* Around the poller: formatEvent, the gateway's network registry and its  *)
(* error handling (RPCClient.setNetwork, setCustomEndpoint, get,           *)
(* handleError), trackCommand's start-up, and the network command's        *)
(* list / add / switch on moveforge.config.json with Config.loadConfig     *)
(* and getDefaultNetwork (src/unnamed/part_006).  Each has its own         *)
(* specification over the same variables.  A second call of pollEvents in  *)
(* the same process (`peer`) shares the gateway with the first and nothing *)
(* else: PollersSpec interleaves the two, AmbientSpec lets the gateway be  *)
(* used while they run.                                                    *)
(***************************************************************************)
EXTENDS Integers, Sequences, FiniteSets, TLC

\* ------------------------------------------------------------------ bounds

\* Longest transaction history of the tracked account.
MaxHist == 3
\* Number of fetches one run of the poller issues.
MaxPolls == 2
\* Largest page the server returns.  The poller asks for {limit: 50}
\* (track.js:55); the model scales the page down so that a history longer
\* than one page is reachable.
Limit == 2
\* Version of the first transaction of the history: 9, so that versions
\* grow from one decimal digit to two (9, 10, 11, 12).
FirstVersion == 9

\* ------------------------------------------------------------- JS values

\* null / undefined of lastSeenVersion: no decimal string is empty.
Null == <<>>
\* A missing property (undefined) where a string is expected.
Undefined == "undefined"
\* The falsy batchId (null from `opts.batch || null`, or undefined).
NoBatch == ""

\* Strings that the code splits are sequences of characters.
Colon == ":"
TypeOk == <<"a", ":", ":", "m", ":", ":", "D">>
TypeOther == <<"a", ":", ":", "o", ":", ":", "D">>
TypeTwo == <<"a", ":", ":", "m">>

\* The kinds of event formatEvent knows (track.js:31-39), and one it does
\* not.  The names are abbreviated to one segment character each.
DrillingStartedEvent == <<"D">>
DrillingCompletedEvent == <<"C">>
TransportationEvent == <<"T">>
RefiningEvent == <<"R">>
DeliveryEvent == <<"V">>
TypeUnknownKind == <<"a", ":", ":", "m", ":", ":", "X">>
TypeFour == <<"a", ":", ":", "m", ":", ":", "D", ":", ":", "x">>

\* The properties of evt.data that formatEvent reads (track.js:32-40), in
\* the order JSON.stringify lists them.
DataKeys == <<"batch_id", "location", "quantity", "unit", "method", "from",
              "to", "refinery", "output_quantity", "destination">>

\* evt.data: tag "undefined" when evt.data is missing; a property that is
\* missing reads as Undefined.
Data(dtag, bid) ==
    [tag |-> dtag, batch_id |-> bid, location |-> Undefined,
     quantity |-> Undefined, unit |-> Undefined, method |-> Undefined,
     from |-> Undefined, to |-> Undefined, refinery |-> Undefined,
     output_quantity |-> Undefined, destination |-> Undefined]

\* An element of txn.events.  isNull: the element is null; type.tag: the
\* JS type of evt.type ("undefined" when missing, "number" for a truthy
\* non-string such as 5); data.tag "undefined": evt.data is missing.
Evt(tag, str, dtag, bid) ==
    [isNull |-> FALSE, type |-> [tag |-> tag, str |-> str],
     data |-> Data(dtag, bid)]

\* An event with the data of a DrillingStartedEvent.
Drilling(str, bid, location, quantity, unit) ==
    [isNull |-> FALSE, type |-> [tag |-> "string", str |-> str],
     data |-> [Data("object", bid) EXCEPT !.location = location,
                                          !.quantity = quantity,
                                          !.unit = unit]]

EvOk == Evt("string", TypeOk, "object", "BATCH-1")
EvOther == Evt("string", TypeOther, "object", "BATCH-1")
EvB2 == Evt("string", TypeOk, "object", "BATCH-2")
EvNoData == Evt("string", TypeOk, "undefined", Undefined)
EvNoBatch == Evt("string", TypeOk, "object", Undefined)
EvTwo == Evt("string", TypeTwo, "object", "BATCH-1")
EvNoType == Evt("undefined", <<>>, "object", "BATCH-1")
EvNum == Evt("number", <<>>, "object", "BATCH-1")
EvNull == [isNull |-> TRUE, type |-> [tag |-> "undefined", str |-> <<>>],
           data |-> Data("undefined", Undefined)]
EvStarted == Drilling(TypeOk, "BATCH-1", "Field-A", "100", "bbl")
EvStartedB2 == Drilling(TypeOk, "BATCH-2", "Field-B", "7", "t")
EvUnknownKind == Drilling(TypeUnknownKind, "BATCH-1", "Field-A", "100", "bbl")
EvUnknownNoData == Evt("string", TypeUnknownKind, "undefined", Undefined)

\* The event lists a transaction of the history may carry.
MixedEvents == <<EvOk, EvOther, EvB2, EvNoData, EvTwo, EvNoType, EvNoBatch, EvOk>>
WellFormedEventLists == {<<>>, MixedEvents}
EventLists == WellFormedEventLists \cup {<<EvOk, EvNull, EvOk>>, <<EvNum, EvOk>>}

\* pollEvents is called by trackCommand only, with
\* `opts.module || 'oil_supply_chain'` (track.js:85): moduleFilter is
\* never falsy.
ModuleFilters == {<<"m">>}
BatchFilters == {NoBatch, "BATCH-1"}

\* ----------------------------------------------------------- conversions

\* The server's rendering of a version: its decimal digits.
RECURSIVE Digits(_)
Digits(n) == IF n < 10 THEN <<n>> ELSE Append(Digits(n \div 10), n % 10)

\* Number(version) of a decimal string (track.js:63).
RECURSIVE Number(_)
Number(s) ==
    IF Len(s) = 0 THEN 0
    ELSE 10 * Number(SubSeq(s, 1, Len(s) - 1)) + s[Len(s)]

\* Array.prototype.reverse (track.js:59).
RECURSIVE Reverse(_)
Reverse(s) == IF s = <<>> THEN <<>> ELSE Append(Reverse(Tail(s)), Head(s))

\* String.prototype.split('::') (track.js:14): cur is the segment being
\* read, the result is the list of segments.
RECURSIVE SplitFrom(_, _, _)
SplitFrom(s, i, cur) ==
    IF i > Len(s) THEN <<cur>>
    ELSE IF i < Len(s) /\ s[i] = Colon /\ s[i + 1] = Colon
         THEN <<cur>> \o SplitFrom(s, i + 2, <<>>)
         ELSE SplitFrom(s, i + 1, Append(cur, s[i]))

Split(s) == SplitFrom(s, 1, <<>>)

\* parseEventType that takes the name from the last segment.
parseEventTypeLastName(str) ==
    LET parts == Split(str) IN
    IF Len(parts) < 3
    THEN [isNull |-> TRUE, address |-> <<>>, module |-> <<>>, name |-> <<>>]
    ELSE [isNull |-> FALSE, address |-> parts[1], module |-> parts[2],
          name |-> parts[Len(parts)]]

\* parseEventType (track.js:13-21); isNull: the function returned null.
parseEventType(str) ==
    LET parts == Split(str) IN
    IF Len(parts) < 3
    THEN [isNull |-> TRUE, address |-> <<>>, module |-> <<>>, name |-> <<>>]
    ELSE [isNull |-> FALSE, address |-> parts[1], module |-> parts[2],
          name |-> parts[3]]

\* ------------------------------------------------------------------ state

VARIABLES
    history,          \* the account's transactions on chain, oldest first
    pc,               \* where pollEvents is: STARTING, POLLING, WAITING
    lastSeenVersion,  \* track.js:47, Null or the raw version last assigned
    moduleFilter,     \* pollEvents' option (<<>> would be a falsy one)
    batchId,          \* pollEvents' option, NoBatch when falsy
    emitted,          \* the logger.success calls so far, in order
    polls,            \* number of fetches issued so far
    last,             \* the last settled fetch
    fetchUrl,         \* the endpoint the last fetch was sent to
    stopRequested,    \* a stop of the poller has been requested
    networks,         \* RPCClient.networks: own properties, name -> URL
    currentNetwork,   \* RPCClient.currentNetwork
    returned,         \* <<>> or <<what the last gateway call returned>>
    exitCode,         \* NotExited or the code given to process.exit
    logged,           \* the logger/console calls of the commands, in order
    config,           \* the content of moveforge.config.json, NoFile if none
    typeStr,          \* the argument given to parseEventType
    parsedType,       \* <<>> or <<what parseEventType returned>>
    peer              \* a second call of pollEvents in the same process

pollerVars == <<history, pc, lastSeenVersion, moduleFilter, batchId, emitted,
                polls, last>>
classifierVars == <<typeStr, parsedType>>
gatewayVars == <<networks, currentNetwork, returned>>
commandVars == <<exitCode, logged, config>>

\* Everything but the poller and its outstanding fetch.
others == <<stopRequested, gatewayVars, commandVars, classifierVars, peer>>

vars == <<pollerVars, fetchUrl, others>>

\* -------------------------------------------------------- batch processing

\* A classification that raises an error on a type it cannot parse
\* instead of returning null.
ParseThrowsOnMalformed(evt) ==
    \/ evt.isNull
    \/ evt.type.tag = "number"
    \/ parseEventType(IF evt.type.tag = "string" THEN evt.type.str ELSE <<>>).isNull

\* `evt.type || ''` followed by typeStr.split (track.js:66, 14): reading
\* .type of null and calling .split on a non-string raise a TypeError.
ParseThrows(evt) == evt.isNull \/ evt.type.tag = "number"

TypeOrEmpty(evt) == IF evt.type.tag = "string" THEN evt.type.str ELSE <<>>

\* evt.data?.batch_id (track.js:69).
BatchIdOf(evt) == IF evt.data.tag = "object" THEN evt.data.batch_id ELSE Undefined

\* The three `continue`s of the event loop (track.js:67-69), negated.
PassesNoModuleCheck(evt, mf, bid) ==
    LET parsed == parseEventType(TypeOrEmpty(evt)) IN
    /\ ~parsed.isNull
    /\ ~(bid # NoBatch /\ BatchIdOf(evt) # bid)

PassesNoBatchCheck(evt, mf, bid) ==
    LET parsed == parseEventType(TypeOrEmpty(evt)) IN
    /\ ~parsed.isNull
    /\ ~(mf # <<>> /\ parsed.module # mf)

\* The filters joined the wrong way: an event passes when either matches.
PassesEitherFilter(evt, mf, bid) ==
    LET parsed == parseEventType(TypeOrEmpty(evt)) IN
    /\ ~parsed.isNull
    /\ \/ ~(mf # <<>> /\ parsed.module # mf)
       \/ (bid # NoBatch /\ BatchIdOf(evt) = bid)

Passes(evt, mf, bid) ==
    LET parsed == parseEventType(TypeOrEmpty(evt)) IN
    /\ ~parsed.isNull
    /\ ~(mf # <<>> /\ parsed.module # mf)
    /\ ~(bid # NoBatch /\ BatchIdOf(evt) # bid)

\* a <= b as JavaScript compares two strings: character by character.
RECURSIVE LexLeq(_, _)
LexLeq(a, b) ==
    IF a = <<>> THEN TRUE
    ELSE IF b = <<>> THEN FALSE
    ELSE IF Head(a) # Head(b) THEN Head(a) < Head(b)
    ELSE LexLeq(Tail(a), Tail(b))

\* The version check on the raw strings, `version <= lastSeenVersion`.
SkipTxnLexicographic(version, seen) == seen # Null /\ LexLeq(version, seen)

\* The version check (track.js:63).
SkipNever(version, seen) == FALSE

SkipTxn(version, seen) == seen # Null /\ Number(version) <= Number(seen)

\* The assignment after a transaction's events (track.js:73).
KeepSeen(seen, version) == seen

NextSeen(seen, version) == version

\* ------------------------------------------------------------- formatEvent

\* chalk.<style>(s): the text between the style's escape codes.
Chalk(style, s) == <<style>> \o s \o <<"reset">>

\* `evt.data || {}` (track.js:27).
DataAlwaysEmpty(evt) == Data("object", Undefined)

DataOrEmpty(evt) ==
    IF evt.data.tag = "object" THEN evt.data ELSE Data("object", Undefined)

\* JSON.stringify of a data object: its defined properties, in order.
RECURSIVE StringifyFrom(_, _)
StringifyFrom(data, i) ==
    IF i > Len(DataKeys) THEN <<>>
    ELSE (IF data[DataKeys[i]] # Undefined
          THEN <<DataKeys[i], data[DataKeys[i]]>> ELSE <<>>)
         \o StringifyFrom(data, i + 1)

Stringify(data) == <<"{">> \o StringifyFrom(data, 1) \o <<"}">>

\* JSON.stringify(evt) (track.js:25).
StringifyEvent(evt) ==
    <<"{">>
    \o (IF evt.type.tag = "string" THEN <<"type">> \o evt.type.str ELSE <<>>)
    \o (IF evt.data.tag = "object" THEN <<"data">> \o Stringify(evt.data)
        ELSE <<>>)
    \o <<"}">>

\* The prefix (track.js:28).
Prefix(name) ==
    Chalk("gray", <<"[">>) \o Chalk("white", name) \o Chalk("gray", <<"]">>)

KnownKinds == {DrillingStartedEvent, DrillingCompletedEvent,
               TransportationEvent, RefiningEvent, DeliveryEvent}

\* The switch on parsed.name (track.js:30-43).
Switch(name, data) ==
    LET batch == Prefix(name) \o <<" batch ">>
                 \o Chalk("cyan", <<data.batch_id>>) \o <<" - ">> IN
    CASE name = DrillingStartedEvent ->
           batch \o Chalk("green", <<"drilling started">>) \o <<" at ">>
           \o Chalk("white", <<data.location>>) \o <<" * qty ">>
           \o Chalk("white", <<data.quantity>>) \o <<" ">>
           \o Chalk("white", <<data.unit>>)
      [] name = DrillingCompletedEvent ->
           batch \o Chalk("green", <<"drilling completed">>) \o <<" at ">>
           \o Chalk("white", <<data.location>>)
      [] name = TransportationEvent ->
           batch \o <<"moved ">> \o Chalk("white", <<data.method>>)
           \o <<" from ">> \o Chalk("white", <<data.from>>) \o <<" -> ">>
           \o Chalk("white", <<data.to>>)
      [] name = RefiningEvent ->
           batch \o Chalk("magenta", <<"refined">>) \o <<" at ">>
           \o Chalk("white", <<data.refinery>>) \o <<" * output ">>
           \o Chalk("white", <<data.output_quantity>>) \o <<" ">>
           \o Chalk("white", <<data.unit>>)
      [] name = DeliveryEvent ->
           batch \o Chalk("blue", <<"delivered">>) \o <<" to ">>
           \o Chalk("white", <<data.destination>>)
      [] OTHER -> Prefix(name) \o <<" ">> \o Stringify(data)

\* What a call returns or throws.
Returned(text) == [threw |-> FALSE, text |-> text]
Threw == [threw |-> TRUE, text |-> <<>>]

\* formatEvent with a switch that has no default branch: data of an
\* unknown kind is dereferenced and the call raises an error.
formatEventKnownOnly(evt) ==
    IF ParseThrows(evt) THEN Threw
    ELSE LET parsed == parseEventType(TypeOrEmpty(evt)) IN
         IF parsed.isNull
         THEN Returned(<<"Unknown event: ">> \o StringifyEvent(evt))
         ELSE IF parsed.name \notin KnownKinds THEN Threw
         ELSE Returned(Switch(parsed.name, DataOrEmpty(evt)))

\* formatEvent (track.js:23-44).
formatEvent(evt) ==
    IF ParseThrows(evt) THEN Threw
    ELSE LET parsed == parseEventType(TypeOrEmpty(evt)) IN
         IF parsed.isNull
         THEN Returned(<<"Unknown event: ">> \o StringifyEvent(evt))
         ELSE Returned(Switch(parsed.name, DataOrEmpty(evt)))

\* One emitted line: the text handed to logger.success (track.js:71) and
\* the event, tagged with where it came from.
Line(version, i, evt) ==
    [version |-> Number(version), idx |-> i, evt |-> evt,
     text |-> formatEvent(evt).text]

\* The inner loop (track.js:65-72) from event i on; threw: a TypeError left
\* the loop.
RECURSIVE ProcessEvents(_, _, _, _, _, _)
ProcessEvents(events, i, version, mf, bid, log) ==
    IF i > Len(events) THEN [log |-> log, threw |-> FALSE]
    ELSE IF ParseThrows(events[i]) THEN [log |-> log, threw |-> TRUE]
    ELSE ProcessEvents(events, i + 1, version, mf, bid,
             IF Passes(events[i], mf, bid)
             THEN Append(log, Line(version, i, events[i]))
             ELSE log)

\* The outer loop (track.js:61-74) from transaction k of `ordered` on.
RECURSIVE ProcessBatch(_, _, _, _, _, _)
ProcessBatch(ordered, k, seen, mf, bid, log) ==
    IF k > Len(ordered) THEN [seen |-> seen, log |-> log, threw |-> FALSE]
    ELSE LET txn == ordered[k] IN
         IF SkipTxn(txn.version, seen)
         THEN ProcessBatch(ordered, k + 1, seen, mf, bid, log)
         ELSE LET r == ProcessEvents(txn.events, 1, txn.version, mf, bid, log) IN
              IF r.threw THEN [seen |-> seen, log |-> r.log, threw |-> TRUE]
              ELSE ProcessBatch(ordered, k + 1, NextSeen(seen, txn.version),
                                mf, bid, r.log)

\* ---------------------------------------------------------------- gateway

\* The networks of the constructor (part_007:11-15).
TestnetUrl == "https://aptos.testnet.porto.movementlabs.xyz/v1"
DevnetUrl == "https://aptos.devnet.porto.movementlabs.xyz/v1"
MainnetUrl == "https://mainnet.movementnetwork.xyz/v1"
DefaultNetworks ==
    [n \in {"testnet", "devnet", "mainnet"} |->
       CASE n = "testnet" -> TestnetUrl
         [] n = "devnet" -> DevnetUrl
         [] n = "mainnet" -> MainnetUrl]

\* this.networks is a plain object: a property it does not own is looked
\* up on Object.prototype, whose properties are all truthy.
PrototypeNames == {"constructor", "toString", "__proto__"}
Inherited(name) ==
    CASE name = "constructor" -> "function Object"
      [] name = "toString" -> "function toString"
      [] name = "__proto__" -> "Object.prototype"

\* obj[name], read.
Lookup(obj, name) ==
    IF name \in DOMAIN obj THEN obj[name]
    ELSE IF name \in PrototypeNames THEN Inherited(name)
    ELSE Undefined

\* obj[name] = value for a string value: '__proto__' is the prototype's
\* setter, which ignores a value that is not an object.
Assign(obj, name, value) ==
    IF name = "__proto__" THEN obj
    ELSE [n \in DOMAIN obj \cup {name} |-> IF n = name THEN value ELSE obj[n]]

\* ToBoolean of a string or undefined.
Truthy(value) == value # Undefined /\ value # ""

\* No fetch has been issued yet.
NoFetch == "none"

\* getEndpoint (part_007:41-43).
getEndpoint == Lookup(networks, currentNetwork)

\* process.exit has not been called.
NotExited == -1

\* The content of moveforge.config.json: networks maps a name to its rpc,
\* deploymentDefault is deployment.defaultNetwork and defaultNetwork the
\* top-level property of that name (Undefined when missing).
ConfigFile(nets, deploymentDefault, defaultNetwork) ==
    [exists |-> TRUE, networks |-> nets,
     deploymentDefault |-> deploymentDefault,
     defaultNetwork |-> defaultNetwork]

NoNetworks == [n \in {} |-> Undefined]

\* moveforge.config.json does not exist.
NoFile ==
    [exists |-> FALSE, networks |-> NoNetworks,
     deploymentDefault |-> Undefined, defaultNetwork |-> Undefined]

\* ------------------------------------------------------------ environment

\* The arrangements of the n transactions of h that follow the first
\* `from` ones.
Arrangements(h, from, n) ==
    {[i \in 1..n |-> h[from + ix[i]]] :
       ix \in {f \in [1..n -> 1..n] : \A a, b \in 1..n : a # b => f[a] # f[b]}}

\* The pages the server may answer with: at most Limit consecutive
\* transactions of the history, in any order (the order is the server's).
Pages(h) ==
    UNION {UNION {Arrangements(h, from, n) : from \in 0..(Len(h) - n)} :
             n \in 0..(IF Len(h) < Limit THEN Len(h) ELSE Limit)}

\* The newest page, newest first.
NewestFirst(h) ==
    LET n == IF Len(h) < Limit THEN Len(h) ELSE Limit IN
    [i \in 1..n |-> h[Len(h) + 1 - i]]

\* The highest version of a page, 0 for an empty one.
RECURSIVE MaxVersion(_)
MaxVersion(txns) ==
    IF txns = <<>> THEN 0
    ELSE LET m == MaxVersion(Tail(txns))
             v == Number(Head(txns).version) IN
         IF v > m THEN v ELSE m

\* What is remembered of the last settled fetch: how it ended ("ok": the
\* batch was processed to its end, "threw": processing raised an error,
\* "rejected": the fetch failed) and how many warnings pollEvents logged
\* for it.
Settled(outcome, warned) == [outcome |-> outcome, warned |-> warned]

\* The locals and arguments of a second call of pollEvents (track.js:46-47)
\* before the call is made, and the lines it handed to logger.success.
NoPeer ==
    [pc |-> "STARTING", lastSeenVersion |-> Null, moduleFilter |-> <<>>,
     batchId |-> NoBatch, emitted |-> <<>>, polls |-> 0, fetchUrl |-> NoFetch]

\* ----------------------------------------------------------------- actions

\* pollEvents is about to run on an account with transactions h.
PollerInit(h) ==
    /\ history = h
    /\ pc = "STARTING"
    /\ lastSeenVersion = Null
    /\ moduleFilter \in ModuleFilters
    /\ batchId \in BatchFilters
    /\ emitted = <<>>
    /\ polls = 0
    /\ last = Settled("none", 0)
    /\ fetchUrl = NoFetch
    /\ stopRequested = FALSE
    /\ peer = NoPeer

\* The gateway as constructed (part_007:10-17).
GatewayInit ==
    /\ networks = DefaultNetworks
    /\ currentNetwork = "testnet"
    /\ returned = <<>>

\* No command has logged or exited, and there is no configuration file.
CommandInit ==
    /\ exitCode = NotExited
    /\ logged = <<>>
    /\ config = NoFile

\* parseEventType has not been applied.
ClassifierInit ==
    /\ typeStr = <<>>
    /\ parsedType = <<>>

Init == PollerInit(<<>>) /\ GatewayInit /\ CommandInit /\ ClassifierInit

\* The chain appends a transaction of the tracked account.
AppendTransaction ==
    /\ Len(history) < MaxHist
    /\ \E evs \in EventLists :
         history' = Append(history,
                       [version |-> Digits(FirstVersion + Len(history)),
                        events |-> evs])
    /\ UNCHANGED <<pc, lastSeenVersion, moduleFilter, batchId, emitted,
                   polls, last>>
    /\ UNCHANGED <<fetchUrl, others>>

\* A loop that sleeps at its top: pollEvents waits for one interval before
\* its first fetch.
StartWaitsFirst ==
    /\ pc = "STARTING"
    /\ pc' = "WAITING"
    /\ lastSeenVersion' = Null
    /\ UNCHANGED <<history, moduleFilter, batchId, emitted, last, polls>>
    /\ UNCHANGED <<fetchUrl, others>>

\* pollEvents up to its first await (track.js:46-56).
Start ==
    /\ pc = "STARTING"
    /\ pc' = "POLLING"
    /\ lastSeenVersion' = Null
    /\ polls' = 1
    /\ UNCHANGED <<history, moduleFilter, batchId, emitted, last>>
    /\ fetchUrl' = getEndpoint
    /\ UNCHANGED others

\* What a cycle does with the array `txns` (track.js:59-74): the
\* watermark and the log it leaves, and whether an error left the loops.
CycleResult(txns) ==
    ProcessBatch(Reverse(txns), 1, lastSeenVersion, moduleFilter, batchId,
                 emitted)

\* The fetch resolves with `txns`; the batch is processed and the timer is
\* armed (track.js:56-79).  A TypeError raised while processing lands in
\* the catch, which logs one warning (track.js:75-77).
Settle(txns) ==
    LET r == CycleResult(txns) IN
    /\ pc = "POLLING"
    /\ pc' = "WAITING"
    /\ lastSeenVersion' = r.seen
    /\ emitted' = r.log
    /\ last' = IF r.threw THEN Settled("threw", 1) ELSE Settled("ok", 0)
    /\ UNCHANGED <<history, moduleFilter, batchId, polls>>
    /\ UNCHANGED <<fetchUrl, others>>

FetchResolve == \E txns \in Pages(history) : Settle(txns)

\* The fetch resolves with a value that is not an array: `ordered` is []
\* (track.js:59).
FetchResolveNonArray ==
    /\ pc = "POLLING"
    /\ pc' = "WAITING"
    /\ last' = Settled("ok", 0)
    /\ UNCHANGED <<history, lastSeenVersion, moduleFilter, batchId, emitted,
                   polls>>
    /\ UNCHANGED <<fetchUrl, others>>

\* A rejection that ends pollEvents instead of being caught.
FetchRejectFatal ==
    /\ pc = "POLLING"
    /\ pc' = "STOPPED"
    /\ last' = Settled("rejected", 0)
    /\ UNCHANGED <<history, lastSeenVersion, moduleFilter, batchId, emitted,
                   polls>>
    /\ UNCHANGED <<fetchUrl, others>>

\* The fetch rejects: the catch logs one warning and the timer is armed
\* (track.js:75-79).
FetchReject ==
    /\ pc = "POLLING"
    /\ pc' = "WAITING"
    /\ last' = Settled("rejected", 1)
    /\ UNCHANGED <<history, lastSeenVersion, moduleFilter, batchId, emitted,
                   polls>>
    /\ UNCHANGED <<fetchUrl, others>>

\* A timer that is not awaited inside the loop but set to repeat: it fires
\* and issues a fetch whether or not the previous one has settled.
TimerFiresRepeating ==
    /\ pc \in {"WAITING", "POLLING"}
    /\ polls < MaxPolls
    /\ pc' = "POLLING"
    /\ polls' = polls + 1
    /\ UNCHANGED <<history, lastSeenVersion, moduleFilter, batchId, emitted,
                   last>>
    /\ fetchUrl' = getEndpoint
    /\ UNCHANGED others

\* The timer fires and the loop issues the next fetch (track.js:79, 53-56).
TimerFires ==
    /\ pc = "WAITING"
    /\ polls < MaxPolls
    /\ pc' = "POLLING"
    /\ polls' = polls + 1
    /\ UNCHANGED <<history, lastSeenVersion, moduleFilter, batchId, emitted,
                   last>>
    /\ fetchUrl' = getEndpoint
    /\ UNCHANGED others

Next ==
    \/ AppendTransaction
    \/ Start
    \/ FetchResolve
    \/ FetchResolveNonArray
    \/ FetchReject
    \/ TimerFires

Spec == Init /\ [][Next]_vars

\* ------------------------------------------- the poller on a fair schedule

\* The chain appends a well-formed transaction while the poller runs.
AppendWhileRunning ==
    /\ pc # "STARTING"
    /\ Len(history) < MaxHist
    /\ \E evs \in WellFormedEventLists :
         history' = Append(history,
                       [version |-> Digits(FirstVersion + Len(history)),
                        events |-> evs])
    /\ UNCHANGED <<pc, lastSeenVersion, moduleFilter, batchId, emitted,
                   polls, last>>
    /\ UNCHANGED <<fetchUrl, others>>

\* The fetch resolves with the newest page, newest first.
FetchNewest == Settle(NewestFirst(history))

\* The timer fires, any number of times; the count of fetches stops at
\* MaxPolls.
TimerFiresAgain ==
    /\ pc = "WAITING"
    /\ pc' = "POLLING"
    /\ polls' = IF polls < MaxPolls THEN polls + 1 ELSE polls
    /\ UNCHANGED <<history, lastSeenVersion, moduleFilter, batchId, emitted,
                   last>>
    /\ fetchUrl' = getEndpoint
    /\ UNCHANGED others

FairNext ==
    \/ AppendWhileRunning
    \/ Start
    \/ FetchNewest
    \/ FetchReject
    \/ TimerFiresAgain

\* Fetches may fail, but succeed again and again: SF_vars(FetchNewest),
\* written out with ENABLED <<FetchNewest>>_vars as what it is, a fetch
\* being outstanding (FetchNewest always moves pc from POLLING to WAITING).
FetchesSucceed == <>[](pc # "POLLING") \/ []<><<FetchNewest>>_vars

\* The event loop runs pollEvents' continuations and timers whenever they
\* are due.
FairSpec ==
    /\ Init
    /\ [][FairNext]_vars
    /\ WF_vars(Start)
    /\ WF_vars(TimerFiresAgain)
    /\ FetchesSucceed

\* ------------------------------------- the poller on a history of two

\* Longest event list of the newest transaction.
MaxEvents == 3

\* Events of the filtered module: of a known and of an unknown kind, with
\* and without data, of the tracked batch and of another.
ModuleEvents == {EvStarted, EvStartedB2, EvNoData, EvUnknownKind,
                 EvUnknownNoData}

\* The event lists of the newest transaction.
ModuleEventLists == UNION {[1..n -> ModuleEvents] : n \in 1..MaxEvents}

\* The account has an older and a newer transaction when pollEvents
\* starts.
ScenarioInit ==
    /\ \E old \in {<<>>, <<EvStarted>>}, new \in ModuleEventLists :
         PollerInit(<<[version |-> Digits(FirstVersion), events |-> old],
                      [version |-> Digits(FirstVersion + 1), events |-> new]>>)
    /\ GatewayInit /\ CommandInit /\ ClassifierInit

ScenarioNext ==
    \/ Start
    \/ FetchResolve
    \/ FetchReject
    \/ TimerFires

ScenarioSpec == ScenarioInit /\ [][ScenarioNext]_vars

\* ------------------------------------------------ parseEventType applied

\* Longest type string over the two characters.
MaxTypeLen == 7

\* The type strings: every string of 'a' and ':' up to MaxTypeLen, and
\* the types of the events above.
TypeStrings ==
    UNION {[1..n -> {"a", Colon}] : n \in 0..MaxTypeLen}
    \cup {TypeOk, TypeOther, TypeTwo, TypeUnknownKind, TypeFour}

ParseInit ==
    /\ PollerInit(<<>>) /\ GatewayInit /\ CommandInit
    /\ typeStr \in TypeStrings
    /\ parsedType = <<>>

\* A call of parseEventType (track.js:13-21).
ParseEventType ==
    /\ parsedType' = <<parseEventType(typeStr)>>
    /\ UNCHANGED <<pollerVars, fetchUrl, stopRequested, peer, gatewayVars,
                   commandVars, typeStr>>

ClassifierSpec == ParseInit /\ [][ParseEventType]_vars

\* --------------------------------------------------- the gateway's calls

\* The names and URLs given to setNetwork and setCustomEndpoint: names of
\* the constructor, new names, and names of Object.prototype's properties.
NetworkNames == {"testnet", "devnet", "custom", "nope", "constructor",
                 "__proto__"}
EndpointNames == {"testnet", "custom", "constructor", "__proto__"}
Urls == {"http://a/v1", "http://b/v1"}

\* What axios.get settled with (part_007:53): a response, or an error
\* with a response (the server answered with a non-success status), with
\* a request only (no answer), or with neither.
Answer(kind, status, message, statusText) ==
    [kind |-> kind, status |-> status, message |-> message,
     statusText |-> statusText]
NoAnswer == Answer("none", "", "", "")
AxiosOutcomes ==
    {Answer("ok", "200", Undefined, "OK"),
     Answer("response", "404", "not found", "Not Found"),
     Answer("response", "500", Undefined, "Internal Server Error"),
     Answer("response", "503", "", "Service Unavailable"),
     Answer("request", "", "timeout of 0ms exceeded", ""),
     Answer("setup", "", "Invalid URL", "")}

\* What a call of the gateway did: threw (rejected, for get) with the
\* error's message, or returned (resolved with) a value.  `available` is
\* Object.keys(this.networks) as read by the call, `answer` what axios
\* settled with.
Call(op, args, threw, message, value, available, answer) ==
    [op |-> op, args |-> args, threw |-> threw, message |-> message,
     value |-> value, available |-> available, answer |-> answer]

\* handleError that only logs when there was no response.
handleErrorLogsOnly(error) ==
    CASE error.kind = "response" ->
           [threw |-> TRUE,
            message |-> <<"RPC Error (", error.status, "): ",
                          IF Truthy(error.message) THEN error.message
                          ELSE error.statusText>>]
      [] error.kind = "request" -> [threw |-> FALSE, message |-> <<>>]
      [] OTHER -> [threw |-> TRUE, message |-> <<error.message>>]

\* handleError (part_007:199-226).
handleError(error) ==
    CASE error.kind = "response" ->
           [threw |-> TRUE,
            message |-> <<"RPC Error (", error.status, "): ",
                          IF Truthy(error.message) THEN error.message
                          ELSE error.statusText>>]
      [] error.kind = "request" ->
           [threw |-> TRUE,
            message |-> <<"Network error: No response from RPC endpoint">>]
      [] OTHER -> [threw |-> TRUE, message |-> <<error.message>>]

\* get (part_007:48-58) settling on what axios settled with: the catch
\* calls handleError and returns nothing.
get(answer) ==
    IF answer.kind = "ok"
    THEN Call("get", <<>>, FALSE, <<>>, "response.data", {}, answer)
    ELSE LET h == handleError(answer) IN
         IF h.threw THEN Call("get", <<>>, TRUE, h.message, Undefined, {}, answer)
         ELSE Call("get", <<>>, FALSE, <<>>, Undefined, {}, answer)

\* setNetwork (part_007:22-28).
SetNetwork(network) ==
    /\ exitCode = NotExited
    /\ IF ~Truthy(Lookup(networks, network))
       THEN /\ returned' = <<Call("setNetwork", <<network>>, TRUE,
                                   <<"Unknown network: ", network,
                                     ". Available: ">>,
                                   Undefined, DOMAIN networks, NoAnswer)>>
            /\ UNCHANGED currentNetwork
       ELSE /\ currentNetwork' = network
            /\ returned' = <<Call("setNetwork", <<network>>, FALSE, <<>>,
                                   Undefined, {}, NoAnswer)>>
    /\ UNCHANGED <<pollerVars, fetchUrl, stopRequested, peer, networks,
                   commandVars, classifierVars>>

\* setCustomEndpoint (part_007:33-36).
SetCustomEndpoint(network, rpcUrl) ==
    /\ exitCode = NotExited
    /\ networks' = Assign(networks, network, rpcUrl)
    /\ returned' = <<Call("setCustomEndpoint", <<network, rpcUrl>>, FALSE,
                           <<>>, Undefined, {}, NoAnswer)>>
    /\ UNCHANGED <<pollerVars, fetchUrl, stopRequested, peer, currentNetwork,
                   commandVars, classifierVars>>

\* getAccountTransactions (part_007:124-127) from its call to its
\* settling; fetchUrl is the endpoint the request went to.
GetAccountTransactions(answer) ==
    /\ exitCode = NotExited
    /\ fetchUrl' = getEndpoint
    /\ returned' = <<get(answer)>>
    /\ UNCHANGED <<pollerVars, stopRequested, peer, networks, currentNetwork,
                   commandVars, classifierVars>>

GatewayNext ==
    \/ \E network \in NetworkNames : SetNetwork(network)
    \/ \E network \in EndpointNames, rpcUrl \in Urls :
         SetCustomEndpoint(network, rpcUrl)
    \/ \E answer \in AxiosOutcomes : GetAccountTransactions(answer)

GatewaySpec == Init /\ [][GatewayNext]_vars

\* ------------------------------------------------------------ trackCommand

\* opts.address: missing ('' is as falsy as undefined) or given.
Addresses == {"", "0xabc"}
\* opts.network: '' when the option is missing.
NetworkOptions == NetworkNames \cup {""}

\* The lines trackCommand logs (track.js:91, 98; part_007:27).
AddressRequired == "error: Address is required. Use --address <accountAddress>"
UnknownNetworkWarning == "warning: Unknown network, defaulting to testnet."
NetworkSet == "info: Network set to"

\* trackCommand from the network selection on (track.js:95-104), with
\* pollEvents up to its first await (track.js:46-56).
SelectAndPoll(network) ==
    /\ IF ~Truthy(Lookup(networks, network))
       THEN /\ logged' = Append(logged, UnknownNetworkWarning)
            /\ UNCHANGED currentNetwork
       ELSE /\ currentNetwork' = network
            /\ logged' = Append(logged, NetworkSet)
    /\ pc' = "POLLING"
    /\ lastSeenVersion' = Null
    /\ polls' = 1
    /\ fetchUrl' = Lookup(networks, currentNetwork')
    /\ UNCHANGED <<history, moduleFilter, batchId, emitted, last,
                   stopRequested, peer, networks, returned, exitCode, config,
                   classifierVars>>

\* trackCommand that logs the missing address and goes on.
TrackCommandNoExit(address, option) ==
    /\ pc = "STARTING"
    /\ exitCode = NotExited
    /\ IF ~Truthy(address)
       THEN /\ logged' = Append(Append(logged, AddressRequired),
                                UnknownNetworkWarning)
            /\ pc' = "POLLING"
            /\ lastSeenVersion' = Null
            /\ polls' = 1
            /\ fetchUrl' = getEndpoint
            /\ UNCHANGED <<history, moduleFilter, batchId, emitted, last,
                           stopRequested, peer, gatewayVars, exitCode, config,
                           classifierVars>>
       ELSE SelectAndPoll(IF option = "" THEN "testnet" ELSE option)

\* trackCommand (track.js:83-105) up to the first await of pollEvents;
\* process.exit ends the process.
TrackCommand(address, option) ==
    /\ pc = "STARTING"
    /\ exitCode = NotExited
    /\ IF ~Truthy(address)
       THEN /\ logged' = Append(logged, AddressRequired)
            /\ exitCode' = 1
            /\ pc' = "EXITED"
            /\ UNCHANGED <<history, lastSeenVersion, moduleFilter, batchId,
                           emitted, polls, last, fetchUrl, stopRequested, peer,
                           gatewayVars, config, classifierVars>>
       ELSE SelectAndPoll(IF option = "" THEN "testnet" ELSE option)

\* The gateway is the process's: it may have been used before the command
\* runs.
TrackNext ==
    \/ \E network \in NetworkNames : pc = "STARTING" /\ SetNetwork(network)
    \/ \E network \in EndpointNames, rpcUrl \in Urls :
         pc = "STARTING" /\ SetCustomEndpoint(network, rpcUrl)
    \/ \E address \in Addresses, option \in NetworkOptions :
         TrackCommand(address, option)
    \/ FetchResolve
    \/ FetchReject
    \/ TimerFires

TrackSpec == Init /\ [][TrackNext]_vars

\* ------------------------------------------------- the poller asked to stop

\* A stop of the poller is requested.  pollEvents takes no cancellation
\* token and its loop, `while (true)` (track.js:53), reads no flag: the
\* request changes nothing that pollEvents looks at.
StopRequest ==
    /\ ~stopRequested
    /\ stopRequested' = TRUE
    /\ UNCHANGED <<pollerVars, fetchUrl, gatewayVars, commandVars,
                   classifierVars, peer>>

StopNext == Next \/ StopRequest

StopSpec == Init /\ [][StopNext]_vars

\* ---------------------------------------------------------- networkCommand

\* The names given to `network add` and `network switch` ('' when the
\* argument is missing).
ConfigNames == {"", "movement", "local", "testnet"}

\* What `await configUtil.loadConfig()` gives (part_006:16-37): null when
\* there is no file, else {path, data}.
Loaded(file) == [isNull |-> ~file.exists, isPromise |-> FALSE, data |-> file]

\* What `configUtil.loadConfig()` gives without await: a promise.
Pending(file) == [isNull |-> FALSE, isPromise |-> TRUE, data |-> file]

\* `loaded?.data || {}` (track.js:140, 210).
DataOf(loaded) ==
    IF loaded.isNull THEN ConfigFile(NoNetworks, Undefined, Undefined)
    ELSE loaded.data

\* The property `networks` of what loadConfig gave, read directly
\* (track.js:288): neither a promise nor {path, data} has one.
NetworksOf(loaded) == NoNetworks

\* getDefaultNetwork (part_006:44-47); Undefined stands for null.
getDefaultNetwork(configData) ==
    IF Truthy(configData.deploymentDefault)
    THEN configData.deploymentDefault ELSE Undefined

\* The name `network list` marks as current (track.js:141-151), Undefined
\* when it marks none.
MarkedCurrent(file) ==
    LET data == DataOf(Loaded(file))
        currentDefault == IF Truthy(getDefaultNetwork(data))
                          THEN getDefaultNetwork(data) ELSE "testnet" IN
    IF currentDefault \in DOMAIN data.networks THEN currentDefault
    ELSE Undefined

NameRequired == "error: Network name is required"
NotFound == "error: Network not found"
Added == "Network added successfully"
Switched == "Switched to network"
Current == "current:"

\* A command of another process: what the last one logged is gone.
\* listNetworks (track.js:136-162).
ListNetworks ==
    /\ logged' = <<Current, MarkedCurrent(config)>>
    /\ exitCode' = NotExited
    /\ UNCHANGED <<pollerVars, fetchUrl, stopRequested, peer, gatewayVars, config,
                   classifierVars>>

\* addNetwork (track.js:164-233) with --url given.
AddNetwork(name, rpcUrl) ==
    /\ IF ~Truthy(name)
       THEN /\ logged' = <<NameRequired>>
            /\ exitCode' = 1
            /\ UNCHANGED config
       ELSE LET data == DataOf(Loaded(config)) IN
            /\ config' = ConfigFile(Assign(data.networks, name, rpcUrl),
                                    IF Truthy(data.deploymentDefault)
                                    THEN data.deploymentDefault ELSE "testnet",
                                    data.defaultNetwork)
            /\ logged' = <<Added, name>>
            /\ exitCode' = NotExited
    /\ UNCHANGED <<pollerVars, fetchUrl, stopRequested, peer, gatewayVars,
                   classifierVars>>

\* switchNetwork (track.js:279-307): loadConfig is called without await.
SwitchNetwork(name) ==
    /\ IF ~Truthy(name)
       THEN /\ logged' = <<NameRequired>>
            /\ exitCode' = 1
            /\ UNCHANGED config
       ELSE LET nets == NetworksOf(Pending(config)) IN
            IF nets = NoNetworks \/ ~Truthy(Lookup(nets, name))
            THEN /\ logged' = <<NotFound, name>>
                 /\ exitCode' = 1
                 /\ UNCHANGED config
            ELSE /\ config' = ConfigFile(NoNetworks, Undefined, name)
                 /\ logged' = <<Switched, name>>
                 /\ exitCode' = NotExited
    /\ UNCHANGED <<pollerVars, fetchUrl, stopRequested, peer, gatewayVars,
                   classifierVars>>

ConfigInit ==
    /\ PollerInit(<<>>) /\ GatewayInit /\ ClassifierInit
    /\ exitCode = NotExited
    /\ logged = <<>>
    /\ config = NoFile

ConfigNext ==
    \/ ListNetworks
    \/ \E name \in ConfigNames, rpcUrl \in Urls : AddNetwork(name, rpcUrl)
    \/ \E name \in ConfigNames : SwitchNetwork(name)

ConfigSpec == ConfigInit /\ [][ConfigNext]_vars

\* ------------------------------------------------------ notions of the claims

Max(a, b) == IF a > b THEN a ELSE b

\* Event i of transaction k of the history has been emitted n times.
Emissions(k, i) ==
    Cardinality({l \in DOMAIN emitted :
                   /\ emitted[l].version = Number(history[k].version)
                   /\ emitted[l].idx = i})

\* Line a comes before line b in (version, index inside the transaction).
Before(a, b) ==
    \/ a.version < b.version
    \/ a.version = b.version /\ a.idx < b.idx

\* The transaction of the history has been processed to its end.
Processed(k) ==
    lastSeenVersion # Null /\ Number(history[k].version) <= Number(lastSeenVersion)

\* An event that the classification lets through: it is a record with a
\* string type that parses, and it passes both filters.
Survives(evt) == ~ParseThrows(evt) /\ Passes(evt, moduleFilter, batchId)

\* ------------------------------------------------------------------ claims

\* C1: no duplicate emission: over any run, whatever the fetches returned
\* or however they failed, no event of a transaction is emitted twice.
NoDuplicateEmission ==
    \A k \in DOMAIN history :
      \A i \in DOMAIN history[k].events : Emissions(k, i) <= 1

\* Every surviving event of transaction k of the history has been emitted
\* once, and no other event of it has been emitted.
Delivered(k) ==
    /\ k \in DOMAIN history
    /\ \A i \in DOMAIN history[k].events :
         Emissions(k, i) = IF Survives(history[k].events[i]) THEN 1 ELSE 0

\* C2: exactly-once delivery: with fetches that succeed again and again and
\* a server that answers newest first, every transaction appended while
\* the poller runs has each of its surviving events emitted eventually,
\* and none is ever emitted twice, however many transactions arrive
\* between two polls.
ExactlyOnceDelivery ==
    /\ \A k \in 1..MaxHist : (k \in DOMAIN history) ~> Delivered(k)
    /\ [](\A k \in DOMAIN history :
            \A i \in DOMAIN history[k].events : Emissions(k, i) < 2)

\* C3: global emission order: the emitted events are strictly increasing
\* in (transaction version, index inside the transaction) over the whole
\* run.
EmissionOrder ==
    \A l \in 1..(Len(emitted) - 1) : Before(emitted[l], emitted[l + 1])

\* C5: watermark monotonicity: once set, lastSeenVersion is never unset
\* again and never decreases numerically, whatever a cycle does.
WatermarkMonotone ==
    [][lastSeenVersion # Null =>
         /\ lastSeenVersion' # Null
         /\ Number(lastSeenVersion') >= Number(lastSeenVersion)]_vars

\* C5 witness: a second cycle has settled with the watermark set and with
\* newer transactions on chain than the watermark.
WatermarkMonotoneWitness ==
    /\ pc = "WAITING"
    /\ polls >= 2
    /\ lastSeenVersion # Null
    /\ Len(history) >= 2
    /\ Number(lastSeenVersion) < Number(history[Len(history)].version)

\* C9: module filter: with moduleFilter set, an event whose type parses to
\* another module is never emitted, whatever batchId and its batch_id are.
ModuleFilterHolds ==
    moduleFilter # <<>> =>
      \A k \in DOMAIN history :
        \A i \in DOMAIN history[k].events :
          LET evt == history[k].events[i] IN
          (/\ ~evt.isNull
           /\ evt.type.tag = "string"
           /\ Len(Split(evt.type.str)) >= 3
           /\ Split(evt.type.str)[2] # moduleFilter)
          => Emissions(k, i) = 0

\* C9 witness: under a module filter, a transaction carrying an event of
\* another module has been processed and events of it were emitted.
ModuleFilterWitness ==
    /\ moduleFilter # <<>>
    /\ \E k \in DOMAIN history :
         /\ history[k].events = MixedEvents
         /\ Processed(k)
         /\ Emissions(k, 1) = 1
         /\ Emissions(k, 2) = 0

\* C10: batch filter: with batchId set, an event whose data.batch_id is
\* not batchId (also one without data or without batch_id) is never
\* emitted.
BatchFilterHolds ==
    batchId # NoBatch =>
      \A k \in DOMAIN history :
        \A i \in DOMAIN history[k].events :
          LET evt == history[k].events[i] IN
          (/\ ~evt.isNull
           /\ (evt.data.tag = "undefined" \/ evt.data.batch_id # batchId))
          => Emissions(k, i) = 0

\* C10 witness: under a batch filter, a transaction carrying events of
\* another batch, without data and without batch_id has been processed and
\* its matching event was emitted.
BatchFilterWitness ==
    /\ batchId # NoBatch
    /\ \E k \in DOMAIN history :
         /\ history[k].events = MixedEvents
         /\ Processed(k)
         /\ Emissions(k, 1) = 1
         /\ Emissions(k, 3) = 0
         /\ Emissions(k, 4) = 0
         /\ Emissions(k, 7) = 0

\* The lines of the surviving events of a transaction from event i on, in
\* the order of the transaction.
RECURSIVE SurvivingLines(_, _)
SurvivingLines(txn, i) ==
    IF i > Len(txn.events) THEN <<>>
    ELSE (IF Survives(txn.events[i])
          THEN <<Line(txn.version, i, txn.events[i])>> ELSE <<>>)
         \o SurvivingLines(txn, i + 1)

\* The lines of the surviving events of transactions k..Len(h) of the
\* history, in ascending version order.
RECURSIVE AscendingLines(_, _)
AscendingLines(h, k) ==
    IF k > Len(h) THEN <<>>
    ELSE SurvivingLines(h[k], 1) \o AscendingLines(h, k + 1)

\* The lines a cycle added to the log.
NewLines == SubSeq(emitted', Len(emitted) + 1, Len(emitted'))

\* C4: single-cycle ordering: a cycle that starts with the watermark unset
\* and receives the newest page in newest-first order emits the surviving
\* events of all of its transactions, in ascending version order and, inside
\* a transaction, in the transaction's order.
SingleCycleOrdering ==
    [][(lastSeenVersion = Null /\ Settle(NewestFirst(history)))
       => NewLines = AscendingLines(history,
                        Len(history) + 1 - Len(NewestFirst(history)))]_vars

\* C6: watermark value: whatever page settles the outstanding fetch, in
\* whatever order, a cycle that processes it to the end leaves as
\* watermark the highest of the previous watermark and the versions of the
\* page; a page without transactions (also the empty array that stands for
\* a reply that is not an array) leaves the watermark unchanged.
WatermarkValue ==
    pc = "POLLING" =>
      \A page \in Pages(history) :
        LET r == CycleResult(page) IN
        ~r.threw =>
          IF page = <<>> THEN r.seen = lastSeenVersion
          ELSE /\ r.seen # Null
               /\ Number(r.seen) = Max(Number(lastSeenVersion), MaxVersion(page))

\* C6 witness: a second cycle completed on a page and left the watermark
\* at the newest transaction of a history of several transactions.
WatermarkValueWitness ==
    /\ pc = "WAITING"
    /\ polls >= 2
    /\ last.outcome = "ok"
    /\ Len(history) >= 2
    /\ lastSeenVersion = history[Len(history)].version

\* C7: recoverable fetch failure: a cycle whose fetch rejects leaves the
\* watermark and the log as they were, logs exactly one warning and arms
\* the timer; the poller's next step from there issues another fetch.
\* pollEvents is never anywhere but in its loop.
RecoverableFetchFailure ==
    [][/\ (pc = "POLLING" /\ pc' # "POLLING" /\ last'.outcome = "rejected") =>
            /\ pc' = "WAITING"
            /\ lastSeenVersion' = lastSeenVersion
            /\ emitted' = emitted
            /\ last'.warned = 1
       /\ (pc = "WAITING" /\ last.outcome = "rejected" /\ pc' # "WAITING") =>
            /\ pc' = "POLLING"
            /\ polls' = polls + 1
            /\ lastSeenVersion' = lastSeenVersion
            /\ emitted' = emitted
       /\ pc' \in {"STARTING", "POLLING", "WAITING"}]_vars

\* C7 witness: a fetch was rejected after an earlier cycle had set the
\* watermark and emitted events, and the poller waits for the next tick.
RecoverableFetchFailureWitness ==
    /\ last.outcome = "rejected"
    /\ pc = "WAITING"
    /\ polls >= 2
    /\ lastSeenVersion # Null
    /\ Len(emitted) > 0

\* The page with every record whose processing raises an error replaced
\* by one that the event loop passes over (an event without type).
SkippingErrors(page) ==
    [k \in DOMAIN page |->
       [version |-> page[k].version,
        events |-> [i \in DOMAIN page[k].events |->
                      IF ParseThrows(page[k].events[i]) THEN EvNoType
                      ELSE page[k].events[i]]]]

\* C8: per-event error containment: whatever page a cycle receives, an
\* event whose processing raises an error is the only thing skipped: the
\* cycle emits what it would emit, and leaves the watermark where it would
\* leave it, if those events were simply passed over.
PerEventContainment ==
    [][\A page \in Pages(history) :
         Settle(page) =>
           LET r == ProcessBatch(Reverse(SkippingErrors(page)), 1,
                                 lastSeenVersion, moduleFilter, batchId,
                                 emitted) IN
           /\ emitted' = r.log
           /\ lastSeenVersion' = r.seen]_vars

\* The text holds the token.
Contains(text, token) == \E j \in DOMAIN text : text[j] = token

\* The events of the transaction that carry the batch id.
OfBatch(txn, bid) ==
    {i \in DOMAIN txn.events : BatchIdOf(txn.events[i]) = bid}

NoSeparator(str) ==
    \A j \in 1..(Len(str) - 1) : ~(str[j] = Colon /\ str[j + 1] = Colon)

\* str has a '::' at i and a next one at j, the first two from the left;
\* e is the end of the segment after them.
ThreeSegments(str, i, j, e) ==
    /\ str[i] = Colon /\ str[i + 1] = Colon
    /\ NoSeparator(SubSeq(str, 1, i))
    /\ i + 2 <= j
    /\ str[j] = Colon /\ str[j + 1] = Colon
    /\ NoSeparator(SubSeq(str, i + 2, j))
    /\ j + 1 <= e
    /\ \/ e = Len(str) /\ NoSeparator(SubSeq(str, j + 2, e))
       \/ /\ e + 2 <= Len(str)
          /\ str[e + 1] = Colon /\ str[e + 2] = Colon
          /\ NoSeparator(SubSeq(str, j + 2, e + 1))

\* C12: parseEventType returns null exactly when the string has fewer
\* than three '::'-separated segments; otherwise it returns the first
\* three segments as address, module and name, whatever follows them.
ParseEventTypeSegments ==
    parsedType # <<>> =>
      LET r == parsedType[1]
          P == 1..Len(typeStr)
          cuts == {c \in P \X P \X (P \cup {0}) :
                     c[1] < Len(typeStr) /\ c[2] < Len(typeStr)
                     /\ ThreeSegments(typeStr, c[1], c[2], c[3])} IN
      /\ r.isNull <=> cuts = {}
      /\ \A c \in cuts :
           /\ r.address = SubSeq(typeStr, 1, c[1] - 1)
           /\ r.module = SubSeq(typeStr, c[1] + 2, c[2] - 1)
           /\ r.name = SubSeq(typeStr, c[2] + 2, c[3])

\* C12 witness: a string of four segments has been parsed to its first
\* three.
ParseEventTypeWitness ==
    /\ typeStr = TypeFour
    /\ parsedType = <<[isNull |-> FALSE, address |-> <<"a">>,
                        module |-> <<"m">>, name |-> <<"D">>]>>

\* The event's type parses and its name is none of the known kinds.
UnknownKind(evt) ==
    /\ ~ParseThrows(evt)
    /\ Len(Split(TypeOrEmpty(evt))) >= 3
    /\ Split(TypeOrEmpty(evt))[3] \notin KnownKinds

\* The text holds every property that the event's data defines, name and
\* value, between braces.
HoldsRawData(text, evt) ==
    /\ Contains(text, "{") /\ Contains(text, "}")
    /\ evt.data.tag = "object" =>
         \A j \in DOMAIN DataKeys :
           evt.data[DataKeys[j]] # Undefined =>
             /\ Contains(text, DataKeys[j])
             /\ Contains(text, evt.data[DataKeys[j]])

\* C13: fallback rendering: for an event whose type parses to a name that
\* is none of the five known kinds, formatEvent does not throw and returns
\* a line holding the event's raw data; such an event of the newest
\* transaction, once that transaction is processed, has been emitted with
\* that line exactly when it passes the filters.
FallbackRendering ==
    \A k \in DOMAIN history :
      \A i \in DOMAIN history[k].events :
        LET evt == history[k].events[i] IN
        UnknownKind(evt) =>
          /\ ~formatEvent(evt).threw
          /\ HoldsRawData(formatEvent(evt).text, evt)
          /\ (k = Len(history) /\ Processed(k) /\ Survives(evt)) =>
               \E l \in DOMAIN emitted :
                 /\ emitted[l].version = Number(history[k].version)
                 /\ emitted[l].idx = i
                 /\ HoldsRawData(emitted[l].text, evt)

\* C13 witness: the newest transaction, an event of unknown kind with
\* data followed by one without, has been processed and both lines are
\* out.
FallbackRenderingWitness ==
    /\ pc = "WAITING"
    /\ batchId = NoBatch
    /\ history[2].events = <<EvUnknownKind, EvUnknownNoData>>
    /\ Processed(2)
    /\ Emissions(2, 1) = 1
    /\ Emissions(2, 2) = 1

\* C14: setNetwork(name) throws an error listing the registered names
\* whenever name is not a registered network (not a key of the registry),
\* for every name; the current network and the registry are then
\* unchanged.
UnknownNetworkRejected ==
    [][\A network \in NetworkNames :
         (SetNetwork(network) /\ network \notin DOMAIN networks) =>
           /\ returned'[1].threw
           /\ returned'[1].available = DOMAIN networks
           /\ currentNetwork' = currentNetwork
           /\ networks' = networks]_vars

\* C15: setCustomEndpoint(name, url) never throws; afterwards name is
\* registered with url, so that setNetwork(name) succeeds and getEndpoint
\* then returns url; no other network's URL changes and the current
\* network is as before.
EndpointUpsert ==
    [][\A network \in EndpointNames, rpcUrl \in Urls :
         SetCustomEndpoint(network, rpcUrl) =>
           /\ ~returned'[1].threw
           /\ network \in DOMAIN networks'
           /\ Truthy(Lookup(networks', network))
           /\ Lookup(networks', network) = rpcUrl
           /\ \A other \in (DOMAIN networks \cup DOMAIN networks') \ {network} :
                /\ other \in DOMAIN networks /\ other \in DOMAIN networks'
                /\ networks'[other] = networks[other]
           /\ currentNetwork' = currentNetwork]_vars

\* C19: a request that failed never resolves: getAccountTransactions
\* rejects.  When the server answered with a non-success status the error
\* carries the status and the message (the status text when the body has
\* none); when there was no answer the error is one that no answer of a
\* server produces.
GatewayFailureOutcomes ==
    (returned # <<>> /\ returned[1].op = "get"
     /\ returned[1].answer.kind # "ok") =>
      LET r == returned[1] IN
      /\ r.threw
      /\ r.answer.kind = "response" =>
           /\ Contains(r.message, r.answer.status)
           /\ Contains(r.message, IF Truthy(r.answer.message)
                                  THEN r.answer.message
                                  ELSE r.answer.statusText)
      /\ r.answer.kind = "request" =>
           \A answer \in AxiosOutcomes :
             answer.kind = "response" => get(answer).message # r.message

\* C19 witness: a request without answer has been rejected.
GatewayFailureWitness ==
    /\ returned # <<>>
    /\ returned[1].op = "get"
    /\ returned[1].answer.kind = "request"
    /\ returned[1].threw
    /\ fetchUrl = TestnetUrl

\* C16: unknown network on track: when trackCommand is given a network
\* name that setNetwork rejects, it logs a warning, does not exit, and the
\* poller's fetch goes to the testnet profile, whatever setNetwork and
\* setCustomEndpoint calls the gateway has seen before.
UnknownNetworkFallsBack ==
    [][\A option \in NetworkOptions \ {""} :
         (/\ ~Truthy(Lookup(networks, option))
          /\ TrackCommand("0xabc", option))
         => /\ logged' = Append(logged, UnknownNetworkWarning)
            /\ exitCode' = NotExited
            /\ pc' = "POLLING"
            /\ fetchUrl' = Lookup(networks, "testnet")]_vars

\* C17: missing address: trackCommand without an address logs an error
\* and exits with code 1; no network has been selected, the poller has not
\* started and no fetch has been issued, and nothing happens afterwards.
MissingAddressFatal ==
    [][/\ \A option \in NetworkOptions :
            TrackCommand("", option) =>
              /\ logged' = Append(logged, AddressRequired)
              /\ exitCode' = 1
              /\ currentNetwork' = currentNetwork
              /\ pc' \notin {"POLLING", "WAITING"}
              /\ polls' = 0
              /\ fetchUrl' = NoFetch
       /\ exitCode = 1 => UNCHANGED vars]_vars

\* C17 witness: the command has exited on a missing address, on a gateway
\* whose network another call had selected before.
MissingAddressWitness ==
    /\ exitCode = 1
    /\ pc = "EXITED"
    /\ logged = <<AddressRequired>>
    /\ currentNetwork = "devnet"
    /\ polls = 0
    /\ fetchUrl = NoFetch

\* C18: cancellation: once a stop has been requested, in whatever state
\* of the poller, no further fetch is issued, and the next step the
\* poller takes (the start of POLLING or of WAITING, where the flag is
\* checked) ends in STOPPED.
CancellationStops ==
    [][stopRequested =>
         /\ polls' = polls
         /\ fetchUrl' = fetchUrl
         /\ pc' # pc => pc' = "STOPPED"]_vars

\* C20: network switch: `network switch <name>` on a name that `network
\* add` has stored in moveforge.config.json does not exit with 'not
\* found' and makes the name the default network: the one that `network
\* list` marks as current and that getDefaultNetwork returns for the saved
\* file.
SwitchToAddedNetwork ==
    [][\A name \in ConfigNames \ {""} :
         (/\ config.exists
          /\ name \in DOMAIN config.networks
          /\ SwitchNetwork(name))
         => /\ exitCode' = NotExited
            /\ logged' # <<NotFound, name>>
            /\ getDefaultNetwork(config') = name
            /\ MarkedCurrent(config') = name]_vars

\* The transactions of `ordered`, from the k-th on, that a cycle starting
\* with watermark `seen` examines: those the loop reaches and the version
\* check does not skip.
RECURSIVE Examined(_, _, _, _, _)
Examined(ordered, k, seen, mf, bid) ==
    IF k > Len(ordered) THEN {}
    ELSE LET txn == ordered[k] IN
         IF SkipTxn(txn.version, seen)
         THEN Examined(ordered, k + 1, seen, mf, bid)
         ELSE {k} \cup
              (IF ProcessEvents(txn.events, 1, txn.version, mf, bid, <<>>).threw
               THEN {}
               ELSE Examined(ordered, k + 1, NextSeen(seen, txn.version),
                             mf, bid))

\* C21: whatever page settles the outstanding fetch, every transaction the
\* cycle examines, whether events of it were emitted or not and also when
\* it has no events at all, is at or below the watermark the cycle leaves:
\* the version check of every later cycle skips it.
ExaminedOnce ==
    pc = "POLLING" =>
      \A page \in Pages(history) :
        LET ordered == Reverse(page)
            r == CycleResult(page) IN
        \A k \in Examined(ordered, 1, lastSeenVersion, moduleFilter, batchId) :
          SkipTxn(ordered[k].version, r.seen)

\* Some, but not all, of the surviving events of transaction k of the
\* history have been emitted.
HalfEmitted(k) ==
    LET events == history[k].events IN
    /\ \E i \in DOMAIN events : Emissions(k, i) > 0
    /\ \E j \in DOMAIN events : Survives(events[j]) /\ Emissions(k, j) = 0

\* C22: transaction-level boundary: whenever the poller waits for its next
\* tick, a transaction whose version is still above the watermark (one
\* that a later cycle will examine) has not been emitted in part, and a
\* transaction at or below the watermark has had every event processed:
\* each surviving event of it that was reached is in the log no more than
\* once.
TransactionBoundary ==
    pc = "WAITING" =>
      \A k \in DOMAIN history :
        /\ ~Processed(k) => ~HalfEmitted(k)
        /\ Processed(k) => \A i \in DOMAIN history[k].events : Emissions(k, i) <= 1

\* The element is a record whose type is a string or is missing.
TextTyped(evt) == ~evt.isNull /\ evt.type.tag \in {"string", "undefined"}

\* A malformed type: missing, or a string of fewer than three segments.
Malformed(evt) ==
    /\ TextTyped(evt)
    /\ evt.type.tag = "string" => Len(Split(evt.type.str)) < 3

\* C23: malformed event types are skipped, not errors: whatever page
\* settles the outstanding fetch, a transaction the cycle examines whose
\* events are records with a string or missing type, some of them
\* malformed, is processed without an error (no warning is logged for it):
\* no malformed event of it is emitted, every other event of it that passes
\* the filters is emitted, and the watermark the cycle leaves is at or
\* above its version.
MalformedSkipped ==
    pc = "POLLING" =>
      \A page \in Pages(history) :
        LET ordered == Reverse(page)
            r == CycleResult(page) IN
        \A k \in Examined(ordered, 1, lastSeenVersion, moduleFilter, batchId) :
          LET txn == ordered[k]
              p == ProcessEvents(txn.events, 1, txn.version, moduleFilter,
                                 batchId, <<>>) IN
          (/\ \A i \in DOMAIN txn.events : TextTyped(txn.events[i])
           /\ \E i \in DOMAIN txn.events : Malformed(txn.events[i]))
          => /\ ~p.threw
             /\ \A i \in DOMAIN txn.events :
                  (\E l \in DOMAIN p.log : p.log[l].idx = i)
                  <=> (/\ ~Malformed(txn.events[i])
                       /\ Passes(txn.events[i], moduleFilter, batchId))
             /\ \A l \in DOMAIN r.log :
                  r.log[l].version = Number(txn.version)
                  => ~Malformed(r.log[l].evt)
             /\ r.seen # Null
             /\ Number(r.seen) >= Number(txn.version)

\* C23 witness: a cycle ended without a warning on a transaction that
\* carries a two-segment type and a missing type among events that pass:
\* the two are not in the log, the events before and after them are, and
\* the watermark is at the transaction's version.
MalformedSkippedWitness ==
    /\ pc = "WAITING"
    /\ last = Settled("ok", 0)
    /\ Len(history) = 1
    /\ history[1].events = MixedEvents
    /\ lastSeenVersion = history[1].version
    /\ Emissions(1, 1) = 1
    /\ Emissions(1, 5) = 0
    /\ Emissions(1, 6) = 0
    /\ Emissions(1, 8) = 1

PeerModuleFilters == {<<"m">>, <<"o">>}

\* The account has two transactions with events of both modules and of
\* two batches when the calls are made.
PollersInit ==
    /\ \E new \in {<<EvOther>>, <<EvB2, EvOk>>, <<EvTwo, EvNoData, EvOk>>} :
         PollerInit(<<[version |-> Digits(FirstVersion),
                       events |-> <<EvOk, EvOther>>],
                      [version |-> Digits(FirstVersion + 1), events |-> new]>>)
    /\ GatewayInit /\ CommandInit /\ ClassifierInit

\* A second call of pollEvents up to its first await (track.js:46-56): its
\* arguments and its `let lastSeenVersion` are the call's own.
PeerStart(mf, bid) ==
    /\ peer.pc = "STARTING"
    /\ peer' = [pc |-> "POLLING", lastSeenVersion |-> Null,
                moduleFilter |-> mf, batchId |-> bid, emitted |-> <<>>,
                polls |-> 1, fetchUrl |-> getEndpoint]
    /\ UNCHANGED <<pollerVars, fetchUrl, stopRequested, gatewayVars,
                   commandVars, classifierVars>>

\* A second call whose watermark is a variable of the module rather than
\* of the call: its cycle reads and assigns the first call's watermark.
PeerSettleShared(txns) ==
    LET r == ProcessBatch(Reverse(txns), 1, lastSeenVersion,
                          peer.moduleFilter, peer.batchId, peer.emitted) IN
    /\ peer.pc = "POLLING"
    /\ peer' = [peer EXCEPT !.pc = "WAITING", !.lastSeenVersion = r.seen,
                            !.emitted = r.log]
    /\ lastSeenVersion' = r.seen
    /\ UNCHANGED <<history, pc, moduleFilter, batchId, emitted, polls, last,
                   fetchUrl, stopRequested, gatewayVars, commandVars,
                   classifierVars>>

\* The second call's fetch resolves with `txns`: the batch is processed
\* with the call's own watermark and filters (track.js:56-79).
PeerSettle(txns) ==
    LET r == ProcessBatch(Reverse(txns), 1, peer.lastSeenVersion,
                          peer.moduleFilter, peer.batchId, peer.emitted) IN
    /\ peer.pc = "POLLING"
    /\ peer' = [peer EXCEPT !.pc = "WAITING", !.lastSeenVersion = r.seen,
                            !.emitted = r.log]
    /\ UNCHANGED <<pollerVars, fetchUrl, stopRequested, gatewayVars,
                   commandVars, classifierVars>>

\* The second call's fetch rejects (track.js:75-79).
PeerReject ==
    /\ peer.pc = "POLLING"
    /\ peer' = [peer EXCEPT !.pc = "WAITING"]
    /\ UNCHANGED <<pollerVars, fetchUrl, stopRequested, gatewayVars,
                   commandVars, classifierVars>>

\* The second call's timer fires and its loop issues the next fetch
\* (track.js:79, 53-56).
PeerTimerFires ==
    /\ peer.pc = "WAITING"
    /\ peer.polls < MaxPolls
    /\ peer' = [peer EXCEPT !.pc = "POLLING", !.polls = peer.polls + 1,
                            !.fetchUrl = getEndpoint]
    /\ UNCHANGED <<pollerVars, fetchUrl, stopRequested, gatewayVars,
                   commandVars, classifierVars>>

\* The two calls' steps, interleaved in any order.
PollersNext ==
    \/ Start
    \/ FetchResolve
    \/ FetchResolveNonArray
    \/ FetchReject
    \/ TimerFires
    \/ \E mf \in PeerModuleFilters, bid \in BatchFilters : PeerStart(mf, bid)
    \/ \E txns \in Pages(history) : PeerSettle(txns)
    \/ PeerReject
    \/ PeerTimerFires

PollersSpec == PollersInit /\ [][PollersNext]_vars

\* What is a call's own: its watermark and its filter criteria.
Own == <<lastSeenVersion, moduleFilter, batchId>>
PeerOwn == <<peer.lastSeenVersion, peer.moduleFilter, peer.batchId>>

\* C26: poller isolation: under any interleaving of two pollers' cycles, a
\* step of one poller leaves the other's watermark and filter criteria as
\* they were, and the filter criteria of a poller stay what they were at
\* its start for as long as it runs.
PollerIsolation ==
    [][/\ <<pc, polls, emitted>> # <<pc', polls', emitted'>> =>
            PeerOwn' = PeerOwn
       /\ <<peer.pc, peer.polls, peer.emitted>>
            # <<peer.pc', peer.polls', peer.emitted'>> => Own' = Own
       /\ <<moduleFilter', batchId'>> = <<moduleFilter, batchId>>
       /\ peer.pc # "STARTING" =>
            <<peer.moduleFilter', peer.batchId'>>
              = <<peer.moduleFilter, peer.batchId>>]_vars

\* C26 witness: both pollers have completed cycles on the same account
\* with different filters, and their watermarks and logs differ.
PollerIsolationWitness ==
    /\ pc = "WAITING"
    /\ peer.pc = "WAITING"
    /\ peer.moduleFilter # moduleFilter
    /\ lastSeenVersion # Null
    /\ peer.lastSeenVersion # Null
    /\ peer.lastSeenVersion # lastSeenVersion
    /\ Len(emitted) > 0
    /\ Len(peer.emitted) > 0
    /\ peer.emitted # emitted

\* C27: numeric version comparison: the k-th transaction of the account
\* has the version FirstVersion + k - 1, sent as its decimal digits; with
\* the watermark at the version of the j-th, a cycle that receives the
\* k-th skips it exactly when k <= j, that is when its version is
\* numerically at or below the watermark, whatever the lengths of the two
\* strings.
NumericVersionCheck ==
    (pc = "POLLING" /\ lastSeenVersion # Null) =>
      \A k \in DOMAIN history, j \in DOMAIN history :
        lastSeenVersion = history[j].version =>
          ((Examined(<<history[k]>>, 1, lastSeenVersion, moduleFilter,
                     batchId) = {})
           <=> k <= j)

\* C27 witness: versions of one and of two digits: with the watermark at
\* the older, shorter one, the newer was processed in a second cycle and
\* the watermark is now the longer string, under which the older is
\* skipped.
NumericVersionWitness ==
    /\ pc = "WAITING"
    /\ polls = 2
    /\ last.outcome = "ok"
    /\ Len(history) = 2
    /\ Len(history[1].version) < Len(history[2].version)
    /\ lastSeenVersion = history[2].version
    /\ history[1].events = MixedEvents
    /\ history[2].events = MixedEvents
    /\ Emissions(1, 1) = 1
    /\ Emissions(2, 1) = 1
    /\ SkipTxn(history[1].version, lastSeenVersion)

\* The line is the line of an event of a transaction of the page: an
\* event whose type is a string of at least three segments, of module mf
\* when mf is set and with data.batch_id = bid when bid is set.
FromPage(line, page, mf, bid) ==
    \E k \in DOMAIN page :
      /\ line.version = Number(page[k].version)
      /\ line.idx \in DOMAIN page[k].events
      /\ LET evt == page[k].events[line.idx] IN
         /\ line.evt = evt
         /\ ~evt.isNull
         /\ evt.type.tag = "string"
         /\ Len(Split(evt.type.str)) >= 3
         /\ mf # <<>> => Split(evt.type.str)[2] = mf
         /\ bid # NoBatch => (evt.data.tag = "object" /\ evt.data.batch_id = bid)

\* The lines of log `after` that follow those of log `before`.
AddedLines(before, after) == {after[l] : l \in (Len(before) + 1)..Len(after)}

\* C28: no spurious emission: a poller's log grows only in a step that
\* settles a fetch of that poller with a page, and every line such a step
\* adds is the line of an event of that page whose type parses and that
\* matches the poller's module and batch filters; a cycle whose fetch
\* failed or returned a value that is not an array adds nothing.
NoSpuriousEmission ==
    [][/\ \A page \in Pages(history) :
            /\ Settle(page) =>
                 /\ SubSeq(emitted', 1, Len(emitted)) = emitted
                 /\ \A line \in AddedLines(emitted, emitted') :
                      FromPage(line, page, moduleFilter, batchId)
            /\ PeerSettle(page) =>
                 /\ SubSeq(peer.emitted', 1, Len(peer.emitted)) = peer.emitted
                 /\ \A line \in AddedLines(peer.emitted, peer.emitted') :
                      FromPage(line, page, peer.moduleFilter, peer.batchId)
       /\ emitted' # emitted => pc = "POLLING" /\ pc' = "WAITING"
       /\ peer.emitted' # peer.emitted =>
            peer.pc = "POLLING" /\ peer.pc' = "WAITING"
       /\ last'.outcome = "rejected" => emitted' = emitted
       /\ (FetchResolveNonArray \/ FetchReject \/ PeerReject) =>
            emitted' = emitted /\ peer.emitted' = peer.emitted]_vars

\* C28 witness: on the same account the two pollers, with different
\* module filters, have each emitted lines, and the first has since had a
\* fetch fail.
NoSpuriousEmissionWitness ==
    /\ pc = "WAITING"
    /\ polls = 2
    /\ last.outcome = "rejected"
    /\ Len(emitted) > 0
    /\ peer.pc = "WAITING"
    /\ peer.moduleFilter = <<"o">>
    /\ Len(peer.emitted) > 0

\* The pages whose processing ends in the catch.
FailingPages == {page \in Pages(history) : CycleResult(page).threw}

\* C29: unset watermark: the watermark is unset before the first cycle;
\* from an unset watermark a cycle that returns no transactions leaves it
\* unset, a cycle that returns transactions and ends without an error
\* sets it, and the cycle skips no transaction before it has set it; a set
\* watermark is never unset by a cycle.  For the watermark to be unset
\* exactly as long as every cycle failed or returned no transactions, the
\* cycles that return transactions and end in an error must either all
\* count as failed and leave it unset, or none count and all set it.
UnsetWatermark ==
    /\ pc = "STARTING" => lastSeenVersion = Null
    /\ pc = "POLLING" =>
         \A page \in Pages(history) :
           LET r == CycleResult(page) IN
           IF lastSeenVersion # Null THEN r.seen # Null
           ELSE /\ page = <<>> => r.seen = Null
                /\ (page # <<>> /\ ~r.threw) => r.seen # Null
                /\ page # <<>> =>
                     1 \in Examined(Reverse(page), 1, lastSeenVersion,
                                    moduleFilter, batchId)
    /\ (pc = "POLLING" /\ lastSeenVersion = Null) =>
         \/ \A page \in FailingPages : CycleResult(page).seen = Null
         \/ \A page \in FailingPages : CycleResult(page).seen # Null

\* ------------------------------------- the gateway used while a poller runs

\* The names given to the gateway while the poller runs: a network of the
\* constructor, a name that is not registered and a property of
\* Object.prototype.
AmbientNames == {"devnet", "nope", "constructor"}

\* The account has one transaction when pollEvents starts.
AmbientInit ==
    /\ PollerInit(<<[version |-> Digits(FirstVersion), events |-> <<EvOk>>]>>)
    /\ GatewayInit /\ CommandInit /\ ClassifierInit

\* A second trackCommand in the same process, with an address, up to the
\* first await of its pollEvents (track.js:83-104, 46-56): it selects its
\* network on the gateway that the first poller uses.
PeerTrackCommand(option, mf) ==
    LET network == IF option = "" THEN "testnet" ELSE option IN
    /\ peer.pc = "STARTING"
    /\ pc # "STARTING"
    /\ exitCode = NotExited
    /\ IF ~Truthy(Lookup(networks, network))
       THEN /\ logged' = Append(logged, UnknownNetworkWarning)
            /\ UNCHANGED currentNetwork
       ELSE /\ currentNetwork' = network
            /\ logged' = Append(logged, NetworkSet)
    /\ peer' = [pc |-> "POLLING", lastSeenVersion |-> Null,
                moduleFilter |-> mf, batchId |-> NoBatch, emitted |-> <<>>,
                polls |-> 1, fetchUrl |-> Lookup(networks, currentNetwork')]
    /\ UNCHANGED <<pollerVars, fetchUrl, stopRequested, networks, returned,
                   exitCode, config, classifierVars>>

AmbientNext ==
    \/ Start
    \/ FetchResolve
    \/ FetchReject
    \/ TimerFires
    \/ \E network \in AmbientNames : pc # "STARTING" /\ SetNetwork(network)
    \/ \E rpcUrl \in Urls :
         pc # "STARTING" /\ SetCustomEndpoint("testnet", rpcUrl)
    \/ \E option \in AmbientNames \cup {""}, mf \in PeerModuleFilters :
         PeerTrackCommand(option, mf)
    \/ \E txns \in Pages(history) : PeerSettle(txns)
    \/ PeerReject
    \/ PeerTimerFires

AmbientSpec == AmbientInit /\ [][AmbientNext]_vars

\* C30: ambient endpoint resolution: every fetch a running poller issues
\* goes to the base URL that is registered, when the fetch is issued, for
\* the network that is then the process's current one, whatever calls of
\* setNetwork and setCustomEndpoint (also those of a second trackCommand)
\* were made since the poller started or since its last fetch; issuing the
\* fetch leaves the poller's watermark as it was.
AmbientEndpoint ==
    [][/\ polls' = polls + 1 =>
            /\ currentNetwork' \in DOMAIN networks'
            /\ fetchUrl' = networks'[currentNetwork']
            /\ pc = "WAITING" => lastSeenVersion' = lastSeenVersion
       /\ peer.polls' = peer.polls + 1 =>
            /\ currentNetwork' \in DOMAIN networks'
            /\ peer.fetchUrl' = networks'[currentNetwork']
       /\ (currentNetwork' # currentNetwork \/ networks' # networks) =>
            /\ lastSeenVersion' = lastSeenVersion
            /\ fetchUrl' = fetchUrl]_vars

====
